---------------------------- MODULE Spec2Model ----------------------------
(***************************************************************************)
(* Parking-slot reservation tracker: the reservation / penalty ledger of   *)
(* server/routes.ts over the two storage backends (server/storage.ts,      *)
(* server/sqlitecloud-storage.ts), with the penalty calculators of the     *)
(* client.                                                                 *)
(*                                                                         *)
(* Time is counted in hours since midnight (UTC) of day 0, a Sunday.  A    *)
(* reservation date is a day number d; new Date("YYYY-MM-DD") is the       *)
(* instant d * 24.  The server is taken to run in UTC, so getDay() and     *)
(* setDate() act on the same calendar.                                     *)
(*                                                                         *)
(* Every action is one whole request handler, run to completion.           *)
(*                                                                         *)
(* Each storage keeps its own users, reservations, penalties and settings. *)
(* A behaviour follows the records of one storage, the one named by        *)
(* backend, under the handlers that run while that storage is the active   *)
(* one; both storages are explored.  The SQLiteCloud database is taken to  *)
(* hold the same two accounts the JSON storage seeds.                      *)
(*                                                                         *)
(* Of a user the model keeps penaltyPoints and suspended; usernames,       *)
(* passwords and roles do not reach the ledger.  Multipliers are whole     *)
(* numbers.                                                                *)
(***************************************************************************)
EXTENDS Integers, Sequences, FiniteSets, TLC

VARIABLES
    backend,               \* the storage getActiveStorage() resolves to
    users,                 \* id -> [penaltyPoints, suspended]
    reservations,          \* id -> [userId, slot, date, status]
    penalties,             \* id -> [userId, reservationId, type, points]
    settings,              \* key -> value (a string)
    currentUserId,         \* next user id
    currentReservationId,  \* next reservation id
    currentPenaltyId,      \* next penalty id
    now,                   \* new Date(), in hours
    resp,                  \* the last request and its response
    preview,               \* what a page last computed with the penalty calculators
    pending                \* booking requests between two of their storage calls

vars == <<backend, users, reservations, penalties, settings, currentUserId,
          currentReservationId, currentPenaltyId, now, resp, preview, pending>>

stores == <<users, reservations, penalties, settings, currentUserId,
            currentReservationId, currentPenaltyId>>

---------------------------------------------------------------------------
(* Bounds of the model *)

MaxReservations == 2
MaxUsers == 3

(* Program constants *)

HoursPerDay == 24
DaysPerWeek == 7
DefaultThreshold == 90
LateHours == 12
GraceDays == 10
PeriodDays == 10

---------------------------------------------------------------------------
(* Inputs *)

Backends == {"json", "sqlitecloud"}

SlotInputs == {"24"}

\* reservation dates (day numbers): Monday of week 1, Tuesday of week 2
DateInputs == {8, 16}

\* the instants at which requests arrive: Monday 06:00 of week 0 (day 1),
\* then 6 hours before and 6 hours after the midnight that starts day 8
Instants == {30, 186, 198}

\* the status field of a POST /api/reservations body: absent (""), or what
\* the dashboard sends ("active")
StatusInputs == {"", "active"}

Undefined == "undefined"

MultiplierInputs == {Undefined, "2"}

LatePenaltyInputs == {Undefined}

ThresholdInputs == {Undefined, "2"}

\* POST /api/users bodies, as far as the ledger reads them: insertUserSchema
\* takes penaltyPoints as any integer, or leaves it out
UserInputs == {<<>>, [penaltyPoints |-> 2], [penaltyPoints |-> -1]}

\* the user ids requests name: user1 (2) and the next one (3), which
\* exists only between its creation and its deletion
RequestUserIds == 2..MaxUsers

\* the reservation ids requests name
ReservationIds == 1..MaxReservations

---------------------------------------------------------------------------
(* Numbers and dates *)

\* Math.ceil(a / b) for b > 0
Ceil(a, b) == -((-a) \div b)

Abs(x) == IF x < 0 THEN -x ELSE x

Max(a, b) == IF a >= b THEN a ELSE b

\* parseFloat / parseInt(_, 10) of the decimal strings the settings hold
ParseNumber(s) ==
    CASE s = "0" -> 0
      [] s = "1" -> 1
      [] s = "2" -> 2
      [] s = "3" -> 3
      [] s = "90" -> 90

\* new Date("YYYY-MM-DD").getTime()
DateTime(d) == d * HoursPerDay

\* Date.getDay(): 0 is Sunday
GetDay(t) == (t \div HoursPerDay) % DaysPerWeek

\* d.setDate(d.getDate() - d.getDay()): back to Sunday, same time of day
WeekStart(t) == t - GetDay(t) * HoursPerDay

GetWeeksDifference(date1, date2) ==
    LET diffTime == Abs(date2 - date1)
        diffDays == Ceil(diffTime, HoursPerDay)
    IN  Ceil(diffDays, DaysPerWeek)

\* hoursUntilReservation < 12
IsLateCancellation(date, t) == DateTime(date) - t < LateHours

\* calculateReservationPenalty of the client, ten-day periods: its daysDiff
DaysDiff(date, t) == Ceil(DateTime(date) - t, HoursPerDay)

\* ten-day periods counted from the first day, none of them free
CalculateReservationPenaltyNoFreePeriod(date, t, weeklyMultiplier) ==
    IF DaysDiff(date, t) <= GraceDays THEN 0
    ELSE Ceil(DaysDiff(date, t), PeriodDays) * weeklyMultiplier

\* ten-day periods that count only when complete
CalculateReservationPenaltyWholePeriods(date, t, weeklyMultiplier) ==
    IF DaysDiff(date, t) <= GraceDays THEN 0
    ELSE (DaysDiff(date, t) \div PeriodDays) * weeklyMultiplier

\* calculateReservationPenalty of the client, ten-day periods: its points
CalculateReservationPenalty(date, t, weeklyMultiplier) ==
    IF DaysDiff(date, t) <= GraceDays THEN 0
    ELSE (Ceil(DaysDiff(date, t), PeriodDays) - 1) * weeklyMultiplier

---------------------------------------------------------------------------
(* Storage *)

\* { ...record, ...updates } restricted to the fields the model keeps
Merge(rec, upd) ==
    [f \in DOMAIN rec |-> IF f \in DOMAIN upd THEN upd[f] ELSE rec[f]]

GetSettingValue(sets, key, default) ==
    IF key \in DOMAIN sets THEN sets[key] ELSE default

\* the threshold as it was when the storage was constructed
GetAutoSuspendThresholdAtStart(sets) == DefaultThreshold

GetAutoSuspendThreshold(sets) ==
    IF "AUTO_SUSPEND_PENALTY_THRESHOLD" \in DOMAIN sets
    THEN ParseNumber(sets["AUTO_SUSPEND_PENALTY_THRESHOLD"])
    ELSE DefaultThreshold

MemUpdateUser(us, sets, id, upd) ==
    IF id \notin DOMAIN us THEN us
    ELSE LET updatedUser == Merge(us[id], upd)
             threshold == GetAutoSuspendThreshold(sets)
         IN  [us EXCEPT ![id] =
                 IF updatedUser.penaltyPoints >= threshold
                 THEN [updatedUser EXCEPT !.suspended = TRUE]
                 ELSE updatedUser]

\* an update that derives suspended from the points it writes
SqlUpdateUserDerived(us, sets, id, upd) ==
    IF id \notin DOMAIN us THEN us
    ELSE LET updatedUser == Merge(us[id], upd)
         IN  [us EXCEPT ![id] =
                 [updatedUser EXCEPT !.suspended =
                     updatedUser.penaltyPoints >= GetAutoSuspendThreshold(sets)]]

SqlUpdateUser(us, sets, id, upd) ==
    IF id \notin DOMAIN us THEN us
    ELSE [us EXCEPT ![id] = Merge(us[id], upd)]

UpdateUser(us, sets, id, upd) ==
    IF backend = "json" THEN MemUpdateUser(us, sets, id, upd)
                        ELSE SqlUpdateUser(us, sets, id, upd)

\* the ids of the active reservations of (slot, date)
ActiveBySlotAndDate(rs, slot, date) ==
    {i \in DOMAIN rs : rs[i].slot = slot /\ rs[i].date = date
                       /\ rs[i].status = "active"}

\* a pre-check that never matches a stored reservation
NeverReserved(rs, slot, date) == FALSE

\* true iff getReservationBySlotAndDate finds a reservation
GetReservationBySlotAndDate(rs, slot, date) ==
    ActiveBySlotAndDate(rs, slot, date) # {}

\* the penalties of the reservation's user instead of the reservation's
PenaltiesOfReservationUser(ps, id) ==
    {p \in DOMAIN ps : id \in DOMAIN reservations
                       /\ ps[p].userId = reservations[id].userId}

\* SELECT * FROM penalties WHERE reservationId = id
PenaltiesOfReservation(ps, id) ==
    {p \in DOMAIN ps : ps[p].reservationId = id}

MinOf(S) == CHOOSE x \in S : \A y \in S : x <= y

Remove(f, k) == [x \in DOMAIN f \ {k} |-> f[x]]

---------------------------------------------------------------------------
(* Responses *)

\* the handler that answered ("admin" for the user and settings routes),
\* its status code and error text, and the id of the reservation in the
\* body (0 when there is none)
Response(op, code, error, resId) ==
    [op |-> op, code |-> code, error |-> error, resId |-> resId]

NoResponse == Response("none", 0, "", 0)

\* no page has computed a penalty yet
NoPreview == [kind |-> "none"]

---------------------------------------------------------------------------
(* Initial state: the storage as constructed, with no data file *)

DefaultUsers ==
    (1 :> [penaltyPoints |-> 0, suspended |-> FALSE]) @@
    (2 :> [penaltyPoints |-> 0, suspended |-> FALSE])

DefaultSettings ==
    ("WEEKLY_PENALTY_MULTIPLIER" :> "1") @@ ("LATE_CANCELLATION_PENALTY" :> "1")

Init ==
    /\ backend \in Backends
    /\ users = DefaultUsers
    /\ reservations = <<>>
    /\ penalties = <<>>
    /\ settings = IF backend = "json" THEN DefaultSettings ELSE <<>>
    /\ currentUserId = 3
    /\ currentReservationId = 1
    /\ currentPenaltyId = 1
    /\ now = MinOf(Instants)
    /\ resp = NoResponse
    /\ preview = NoPreview
    /\ pending = <<>>

---------------------------------------------------------------------------
(* POST /api/reservations *)

\* reservationWeekStart > currentWeekStart
InFutureWeek(date, t) == WeekStart(DateTime(date)) > WeekStart(t)

\* weeksDiff of the handler
WeeksAhead(date, t) ==
    GetWeeksDifference(WeekStart(t), WeekStart(DateTime(date)))

\* parseFloat((await storage.getSetting("WEEKLY_PENALTY_MULTIPLIER"))?.value || "1")
WeeklyMultiplier(sets) ==
    ParseNumber(GetSettingValue(sets, "WEEKLY_PENALTY_MULTIPLIER", "1"))

\* storage.createReservation: status defaults to "active"
NewReservation(userId, slot, date, status) ==
    [userId |-> userId, slot |-> slot, date |-> date,
     status |-> IF status = "" THEN "active" ELSE status]

\* storage.createPenalty for the booking
NewBookingPenalty(userId, resId, points) ==
    [userId |-> userId, reservationId |-> resId, type |-> "future_week",
     points |-> points]

\* the checks without the one on suspended
PreCheckNoSuspended(userId, slot, date) ==
    IF userId \notin DOMAIN users THEN
       [code |-> 404, error |-> "User not found"]
    ELSE IF GetReservationBySlotAndDate(reservations, slot, date) THEN
       [code |-> 400, error |-> "Slot already reserved for this date"]
    ELSE [code |-> 0, error |-> ""]

\* the checks without the one on the slot
PreCheckNoSlot(userId, slot, date) ==
    IF userId \notin DOMAIN users THEN
       [code |-> 404, error |-> "User not found"]
    ELSE IF users[userId].suspended THEN
       [code |-> 403, error |-> "User is suspended and cannot make reservations"]
    ELSE [code |-> 0, error |-> ""]

\* the handler's checks before it writes: the status code and error text
\* of the rejection, code 0 when the request passes
PreCheck(userId, slot, date) ==
    IF userId \notin DOMAIN users THEN
       [code |-> 404, error |-> "User not found"]
    ELSE IF users[userId].suspended THEN
       [code |-> 403, error |-> "User is suspended and cannot make reservations"]
    ELSE IF GetReservationBySlotAndDate(reservations, slot, date) THEN
       [code |-> 400, error |-> "Slot already reserved for this date"]
    ELSE [code |-> 0, error |-> ""]

CreateReservation(userId, slot, date, status) ==
    /\ UNCHANGED <<preview, pending>>
    /\ UNCHANGED <<backend, settings, currentUserId, now>>
    /\ LET rejected == PreCheck(userId, slot, date)
       IN  IF rejected.code # 0 THEN
              /\ resp' = Response("createReservation", rejected.code,
                                  rejected.error, 0)
              /\ UNCHANGED <<users, reservations, penalties,
                             currentReservationId, currentPenaltyId>>
           ELSE
              /\ currentReservationId <= MaxReservations
              /\ reservations' = reservations @@
                     (currentReservationId :>
                         NewReservation(userId, slot, date, status))
              /\ currentReservationId' = currentReservationId + 1
              /\ IF InFutureWeek(date, now) THEN
                    LET penaltyPoints ==
                            WeeksAhead(date, now) * WeeklyMultiplier(settings)
                    IN  /\ penalties' = penalties @@
                               (currentPenaltyId :>
                                   NewBookingPenalty(userId, currentReservationId,
                                                     penaltyPoints))
                        /\ currentPenaltyId' = currentPenaltyId + 1
                        /\ users' = UpdateUser(users, settings, userId,
                               [penaltyPoints |->
                                   users[userId].penaltyPoints + penaltyPoints])
                 ELSE UNCHANGED <<users, penalties, currentPenaltyId>>
              /\ resp' = Response("createReservation", 201, "",
                                  currentReservationId)

---------------------------------------------------------------------------
(* POST /api/reservations/:id/cancel *)

\* MemStorage.updateReservation(id, { status: "canceled" })
MemCancel(id) ==
    IF id \notin DOMAIN reservations THEN
       /\ resp' = Response("cancel", 404, "Reservation not found", 0)
       /\ UNCHANGED <<users, reservations, penalties>>
    ELSE
       /\ reservations' = [reservations EXCEPT ![id].status = "canceled"]
       /\ resp' = Response("cancel", 200, "", id)
       /\ UNCHANGED <<users, penalties>>

\* Math.ceil((reservationDate - now) / one week)
WeeksDifference(date, t) == Ceil(DateTime(date) - t, DaysPerWeek * HoursPerDay)

\* a reversal of one point whatever the penalty holds
DeductOne(points, by) == Max(0, points - 1)

\* Math.max(0, user.penaltyPoints - penaltyPoints)
Deduct(points, by) == Max(0, points - by)

\* SQLiteCloudStorage.updateReservation(id, { status: "canceled" })
SqlCancel(id) ==
    IF id \notin DOMAIN reservations THEN
       /\ resp' = Response("cancel", 404, "Reservation not found", 0)
       /\ UNCHANGED <<users, reservations, penalties>>
    ELSE LET r == reservations[id]
             found == PenaltiesOfReservation(penalties, id)
         IN  IF WeeksDifference(r.date, now) >= 1 /\ r.userId \in DOMAIN users THEN
                IF found = {} THEN
                   \* "No penalty entry found": returns undefined
                   /\ resp' = Response("cancel", 404, "Reservation not found", 0)
                   /\ UNCHANGED <<users, reservations, penalties>>
                ELSE
                   LET p == MinOf(found)
                   IN  /\ users' = UpdateUser(users, settings, r.userId,
                              [penaltyPoints |->
                                  Deduct(users[r.userId].penaltyPoints,
                                         penalties[p].points)])
                       /\ penalties' = Remove(penalties, p)
                       /\ reservations' =
                              [reservations EXCEPT ![id].status = "canceled"]
                       /\ resp' = Response("cancel", 200, "", id)
             ELSE
                /\ reservations' = [reservations EXCEPT ![id].status = "canceled"]
                /\ resp' = Response("cancel", 200, "", id)
                /\ UNCHANGED <<users, penalties>>

CancelReservation(id) ==
    /\ UNCHANGED <<preview, pending>>
    /\ UNCHANGED <<backend, settings, currentUserId, currentReservationId,
                   currentPenaltyId, now>>
    /\ IF backend = "json" THEN MemCancel(id) ELSE SqlCancel(id)

---------------------------------------------------------------------------
(* Users *)

\* POST /api/users: storage.createUser; the username is taken to be new
CreateUser(body) ==
    /\ UNCHANGED <<preview, pending>>
    /\ currentUserId <= MaxUsers
    /\ users' = users @@
           (currentUserId :>
               [penaltyPoints |-> IF "penaltyPoints" \in DOMAIN body
                                  THEN body.penaltyPoints ELSE 0,
                suspended |-> FALSE])
    /\ currentUserId' = currentUserId + 1
    /\ resp' = Response("admin", 201, "", 0)
    /\ UNCHANGED <<backend, reservations, penalties, settings,
                   currentReservationId, currentPenaltyId, now>>

\* DELETE /api/users/:id: storage.deleteUser
DeleteUser(id) ==
    /\ UNCHANGED <<preview, pending>>
    /\ IF id \in DOMAIN users
       THEN /\ users' = Remove(users, id)
            /\ resp' = Response("admin", 200, "", 0)
       ELSE /\ resp' = Response("admin", 404, "User not found", 0)
            /\ UNCHANGED users
    /\ UNCHANGED <<backend, reservations, penalties, settings, currentUserId,
                   currentReservationId, currentPenaltyId, now>>

\* PUT /api/users/:id/password and PUT /api/users/self/password: both
\* are storage.getUser(id), then storage.updateUser(id, { password })
ChangePassword(id) ==
    /\ UNCHANGED <<preview, pending>>
    /\ IF id \in DOMAIN users
       THEN /\ users' = UpdateUser(users, settings, id, [password |-> "secret"])
            /\ resp' = Response("admin", 200, "", 0)
       ELSE /\ resp' = Response("admin", 404, "User not found", 0)
            /\ UNCHANGED users
    /\ UNCHANGED <<backend, reservations, penalties, settings, currentUserId,
                   currentReservationId, currentPenaltyId, now>>

\* PUT /api/users/:id/suspend: storage.updateUser(id, { suspended })
SuspendUser(id, suspended) ==
    /\ UNCHANGED <<preview, pending>>
    /\ IF id \in DOMAIN users
       THEN /\ users' = UpdateUser(users, settings, id, [suspended |-> suspended])
            /\ resp' = Response("admin", 200, "", 0)
       ELSE /\ resp' = Response("admin", 404, "User not found", 0)
            /\ UNCHANGED users
    /\ UNCHANGED <<backend, reservations, penalties, settings, currentUserId,
                   currentReservationId, currentPenaltyId, now>>

---------------------------------------------------------------------------
(* PUT /api/settings *)

\* storage.setSetting(key, value) when the body names the key
SetSetting(sets, key, value) ==
    IF value = Undefined THEN sets
    ELSE [k \in DOMAIN sets \cup {key} |-> IF k = key THEN value ELSE sets[k]]

UpdateSettings(weeklyPenaltyMultiplier, lateCancellationPenalty, autoSuspendPenaltyThreshold) ==
    /\ UNCHANGED <<preview, pending>>
    /\ settings' =
           SetSetting(
               SetSetting(
                   SetSetting(settings, "WEEKLY_PENALTY_MULTIPLIER",
                              weeklyPenaltyMultiplier),
                   "LATE_CANCELLATION_PENALTY", lateCancellationPenalty),
               "AUTO_SUSPEND_PENALTY_THRESHOLD", autoSuspendPenaltyThreshold)
    /\ resp' = Response("admin", 200, "", 0)
    /\ UNCHANGED <<backend, users, reservations, penalties, currentUserId,
                   currentReservationId, currentPenaltyId, now>>

---------------------------------------------------------------------------
(* storage.deleteReservation, the DELETE /api/reservations/:id the pages send *)

MemDeleteReservation(id) ==
    /\ reservations' = Remove(reservations, id)
    /\ UNCHANGED <<users, penalties>>

SqlDeleteReservation(id) ==
    LET r == reservations[id]
    IN  /\ users' =
               IF WeeksDifference(r.date, now) >= 1 /\ r.userId \in DOMAIN users
               THEN UpdateUser(users, settings, r.userId,
                        [penaltyPoints |-> Deduct(users[r.userId].penaltyPoints, 1)])
               ELSE users
        /\ reservations' = Remove(reservations, id)
        /\ UNCHANGED penalties

DeleteReservation(id) ==
    /\ UNCHANGED <<preview, pending>>
    /\ UNCHANGED <<backend, settings, currentUserId, currentReservationId,
                   currentPenaltyId, now>>
    /\ IF id \notin DOMAIN reservations THEN
          /\ resp' = Response("deleteReservation", 404, "", 0)
          /\ UNCHANGED <<users, reservations, penalties>>
       ELSE
          /\ resp' = Response("deleteReservation", 200, "", id)
          /\ IF backend = "json" THEN MemDeleteReservation(id)
                                 ELSE SqlDeleteReservation(id)

---------------------------------------------------------------------------
(* Clock *)

\* time passes between two requests
Tick(t) ==
    /\ UNCHANGED <<preview, pending>>
    /\ t > now
    /\ now' = t
    /\ resp' = NoResponse
    /\ UNCHANGED <<backend, stores>>

---------------------------------------------------------------------------
(* Specifications *)

\* reservation create and cancel requests only, with the clock and the
\* settings moving
LedgerNext ==
    \/ \E u \in RequestUserIds, s \in SlotInputs, d \in DateInputs,
          st \in StatusInputs : CreateReservation(u, s, d, st)
    \/ \E id \in ReservationIds : CancelReservation(id)
    \/ \E wm \in MultiplierInputs, lc \in LatePenaltyInputs,
          th \in ThresholdInputs : UpdateSettings(wm, lc, th)
    \/ \E t \in Instants : Tick(t)

LedgerSpec == Init /\ [][LedgerNext]_vars

\* every route of server/routes.ts that writes
Next ==
    \/ \E u \in RequestUserIds, s \in SlotInputs, d \in DateInputs,
          st \in StatusInputs : CreateReservation(u, s, d, st)
    \/ \E id \in ReservationIds : CancelReservation(id)
    \/ \E body \in UserInputs : CreateUser(body)
    \/ \E id \in RequestUserIds : DeleteUser(id)
    \/ \E id \in RequestUserIds : ChangePassword(id)
    \/ \E id \in RequestUserIds, b \in BOOLEAN : SuspendUser(id, b)
    \/ \E wm \in MultiplierInputs, lc \in LatePenaltyInputs,
          th \in ThresholdInputs : UpdateSettings(wm, lc, th)
    \/ \E t \in Instants : Tick(t)

Spec == Init /\ [][Next]_vars

\* the routes, and the storage's deleteReservation
StorageNext ==
    \/ Next
    \/ \E id \in ReservationIds : DeleteReservation(id)

StorageSpec == Init /\ [][StorageNext]_vars

---------------------------------------------------------------------------
(* Properties *)

RECURSIVE SumPoints(_, _)
SumPoints(ps, ids) ==
    IF ids = {} THEN 0
    ELSE LET p == CHOOSE x \in ids : TRUE
         IN  ps[p].points + SumPoints(ps, ids \ {p})

\* the sum of the points of the user's Penalty records
LedgerPoints(u) == SumPoints(penalties, {p \in DOMAIN penalties : penalties[p].userId = u})

\* C1: after any sequence of reservation create and cancel requests, on
\* either backend, every user's penaltyPoints is the sum of the points of
\* the Penalty records of that user.
C1_PointsMatchLedger ==
    \A u \in DOMAIN users : users[u].penaltyPoints = LedgerPoints(u)

\* a cancel has reversed one penalty while the user keeps another one
C1_Witness ==
    /\ resp.op = "cancel" /\ resp.code = 200
    /\ \E u \in DOMAIN users :
          /\ reservations[resp.resId].userId = u
          /\ users[u].penaltyPoints > 0
          /\ Cardinality(DOMAIN penalties) < currentPenaltyId - 1

\* every (slot, date) with at most one active reservation, and the step
\* of a booking request for a taken (slot, date)
AtMostOneActive ==
    \A s \in SlotInputs, d \in DateInputs :
        Cardinality(ActiveBySlotAndDate(reservations, s, d)) <= 1

ConflictRejected ==
    resp'.op = "createReservation" =>
        \A s \in SlotInputs, d \in DateInputs :
            ActiveBySlotAndDate(reservations, s, d) # {} =>
                \A u \in RequestUserIds, st \in StatusInputs :
                    \/ /\ resp'.code # 201
                       /\ reservations' = reservations
                       /\ (u \in DOMAIN users /\ ~users[u].suspended
                             => /\ resp'.code = 400
                                /\ resp'.error =
                                       "Slot already reserved for this date")
                    \/ ~CreateReservation(u, s, d, st)

\* C2: with booking requests handled one at a time, no (slot, date) has
\* two active reservations, and a booking request by a user who may book,
\* for a (slot, date) that has an active reservation, is answered with the
\* "Slot already reserved" error and leaves the reservations as they were.
C2_OneActivePerSlotAndDate ==
    [][AtMostOneActive' /\ ConflictRejected]_vars

\* a booking was refused because the slot is taken on that date
C2_Witness ==
    /\ resp.op = "createReservation" /\ resp.code = 400
    /\ \E s \in SlotInputs, d \in DateInputs :
          Cardinality(ActiveBySlotAndDate(reservations, s, d)) = 1

\* the step of a cancel request that names a cancelled reservation
SecondCancelChangesNothing ==
    resp'.op = "cancel" =>
        \A id \in DOMAIN reservations :
            (reservations[id].status = "canceled" /\ CancelReservation(id))
            => (penalties' = penalties /\ users' = users)

\* C3: a cancel request for a reservation that a cancel request has
\* already cancelled adds no penalty, deletes no penalty and changes no
\* user's points.
C3_SecondCancelIsNoOp == [][SecondCancelChangesNothing]_vars

\* every reservation is cancelled, a penalty of another reservation is
\* still charged, and the last cancel request was answered 404: it named a
\* cancelled reservation
C3_Witness ==
    /\ resp.op = "cancel" /\ resp.code = 404
    /\ DOMAIN reservations = ReservationIds
    /\ \A id \in DOMAIN reservations : reservations[id].status = "canceled"
    /\ penalties # <<>>

\* the step of a successful booking, against the ten-day evaluator
CreateChargesTenDayPeriods ==
    (resp'.op = "createReservation" /\ resp'.code = 201) =>
        LET id == resp'.resId
            r == reservations'[id]
            u == r.userId
            points == CalculateReservationPenalty(r.date, now,
                                                  WeeklyMultiplier(settings))
            created == DOMAIN penalties' \ DOMAIN penalties
        IN  /\ users'[u].penaltyPoints = users[u].penaltyPoints + points
            /\ DaysDiff(r.date, now) <= GraceDays => created = {}
            /\ DaysDiff(r.date, now) > GraceDays =>
                  \E p \in created :
                      /\ created = {p}
                      /\ penalties'[p].reservationId = id
                      /\ penalties'[p].userId = u
                      /\ penalties'[p].points = points

\* C4: a successful booking changes the user's points by the ten-day
\* evaluator's result for (date, now, multiplier): no Penalty record and no
\* change up to 10 days ahead, beyond that exactly one future-booking
\* Penalty of the new reservation with (ceil(daysAhead / 10) - 1) *
\* multiplier points, added to the user.
C4_CreateChargesEvaluator == [][CreateChargesTenDayPeriods]_vars

\* the step of a successful booking that adds points
CreateSuspendsAtThreshold ==
    (resp'.op = "createReservation" /\ resp'.code = 201) =>
        LET u == reservations'[resp'.resId].userId
        IN  ( /\ users'[u].penaltyPoints > users[u].penaltyPoints
              /\ users'[u].penaltyPoints >= GetAutoSuspendThreshold(settings) )
            => users'[u].suspended

\* C5: when a booking adds points to a user, on any backend, the user is
\* suspended after it if the new points reach the auto-suspend threshold.
C5_SuspendedAtThreshold == [][CreateSuspendsAtThreshold]_vars

\* the steps that clear a suspended flag
SuspensionKept ==
    \A u \in DOMAIN users \cap DOMAIN users' :
        (users[u].suspended /\ ~users'[u].suspended) => SuspendUser(u, FALSE)

\* C6: a user who is suspended stays suspended through every step but an
\* admin request that unsuspends that user: no booking, cancellation or
\* reversal of points clears the flag.
C6_SuspensionNeverAutoClears == [][SuspensionKept]_vars

\* a cancel has reversed a penalty of a suspended user, who is below the
\* threshold after it
C6_Witness ==
    /\ resp.op = "cancel" /\ resp.code = 200
    /\ Cardinality(DOMAIN penalties) < currentPenaltyId - 1
    /\ \E u \in DOMAIN users :
          /\ reservations[resp.resId].userId = u
          /\ users[u].suspended
          /\ users[u].penaltyPoints < GetAutoSuspendThreshold(settings)

\* the step of an early cancel of a reservation that carries a penalty
EarlyCancelReverses ==
    resp'.op = "cancel" =>
        \A id \in DOMAIN reservations :
            \A p \in PenaltiesOfReservation(penalties, id) :
                LET r == reservations[id]
                IN  ( /\ r.status = "active"
                      /\ r.userId \in DOMAIN users
                      /\ penalties[p].type = "future_week"
                      /\ ~IsLateCancellation(r.date, now)
                      /\ CancelReservation(id) )
                    => /\ users'[r.userId].penaltyPoints =
                              users[r.userId].penaltyPoints - penalties[p].points
                       /\ p \notin DOMAIN penalties'

\* C7: cancelling an active reservation that carries a future-booking
\* Penalty, 12 hours or more before its date, subtracts that Penalty's
\* points from the owner and deletes the Penalty record, on every backend.
C7_EarlyCancelReversesPenalty == [][EarlyCancelReverses]_vars

\* the value of LATE_CANCELLATION_PENALTY, "1" when unset
LateCancellationPenalty(sets) ==
    ParseNumber(GetSettingValue(sets, "LATE_CANCELLATION_PENALTY", "1"))

\* the step of a late cancel of an active reservation
LateCancelCharges ==
    resp'.op = "cancel" =>
        \A id \in DOMAIN reservations :
            LET r == reservations[id]
            IN  ( /\ r.status = "active"
                  /\ r.userId \in DOMAIN users
                  /\ IsLateCancellation(r.date, now)
                  /\ CancelReservation(id) )
                => /\ \E p \in DOMAIN penalties' \ DOMAIN penalties :
                          /\ penalties'[p].type = "late_cancellation"
                          /\ penalties'[p].userId = r.userId
                          /\ penalties'[p].points = LateCancellationPenalty(settings)
                   /\ users'[r.userId].penaltyPoints =
                          users[r.userId].penaltyPoints
                              + LateCancellationPenalty(settings)

\* C8: cancelling an active reservation less than 12 hours before its date
\* creates a late-cancellation Penalty of LATE_CANCELLATION_PENALTY points
\* and adds those points to the owner.
C8_LateCancelChargesPenalty == [][LateCancelCharges]_vars

\* C9: no user's penaltyPoints is negative in any reachable state.
C9_PointsNeverNegative ==
    \A u \in DOMAIN users : users[u].penaltyPoints >= 0

\* the answer and the stores after a booking request that must fail
FailedCreate(u, s, d) ==
    /\ u \notin DOMAIN users =>
          (resp'.code = 404 /\ UNCHANGED stores)
    /\ (u \in DOMAIN users /\ users[u].suspended) =>
          (resp'.code = 403 /\ UNCHANGED stores)
    /\ ( /\ u \in DOMAIN users /\ ~users[u].suspended
         /\ ActiveBySlotAndDate(reservations, s, d) # {} ) =>
          ( /\ resp'.code = 400
            /\ resp'.error = "Slot already reserved for this date"
            /\ UNCHANGED stores )

CreateFailsAtomically ==
    resp'.op = "createReservation" =>
        \A u \in RequestUserIds, s \in SlotInputs, d \in DateInputs,
           st \in StatusInputs :
            FailedCreate(u, s, d) \/ ~CreateReservation(u, s, d, st)

\* C10: a booking request fails with 404 when the user does not exist, 403
\* when the user is suspended and the "Slot already reserved" error when
\* (slot, date) has an active reservation, and a failed request leaves the
\* users, reservations and penalties as they were.
C10_CreateFailsAtomically == [][CreateFailsAtomically]_vars

\* a suspended user's booking request was refused
C10_Witness ==
    /\ resp.op = "createReservation" /\ resp.code = 403
    /\ \E u \in DOMAIN users : users[u].suspended

\* the step of a cancel request that names an active reservation
CancelOfActiveSucceeds ==
    resp'.op = "cancel" =>
        \A id \in DOMAIN reservations :
            (reservations[id].status = "active" /\ CancelReservation(id))
            => (resp'.code = 200 /\ reservations'[id].status = "canceled")

\* C11: a cancel request for an existing active reservation is answered
\* with success and leaves the reservation cancelled, with or without a
\* Penalty record attached, on every backend.
C11_CancelOfActiveSucceeds == [][CancelOfActiveSucceeds]_vars

\* the step of a cancel request for a reservation of a suspended user
SuspendedCancelRefused ==
    resp'.op = "cancel" =>
        \A id \in DOMAIN reservations :
            LET u == reservations[id].userId
            IN  ( /\ u \in DOMAIN users
                  /\ users[u].suspended
                  /\ CancelReservation(id) )
                => /\ resp'.code = 403
                   /\ reservations' = reservations
                   /\ penalties' = penalties
                   /\ users' = users

\* C12: a cancel request for a reservation whose owner is suspended is
\* answered 403 and leaves the reservation, the penalties and the owner's
\* points as they were.
C12_SuspendedCancelRefused == [][SuspendedCancelRefused]_vars

\* statuses a POST /api/reservations body can carry besides "active":
\* insertReservationSchema takes any text
SchemaStatusInputs == {"completed", "cancelled"}

\* the reservation routes, with bodies that carry a status
StatusNext ==
    \/ LedgerNext
    \/ \E u \in RequestUserIds, s \in SlotInputs, d \in DateInputs,
          st \in SchemaStatusInputs : CreateReservation(u, s, d, st)

StatusSpec == Init /\ [][StatusNext]_vars

\* a reservation that is cancelled or completed keeps its status
StatusAbsorbing ==
    \A id \in DOMAIN reservations \cap DOMAIN reservations' :
        reservations[id].status \in {"cancelled", "canceled", "completed"}
        => reservations'[id].status = reservations[id].status

\* C13: once a reservation's status is cancelled or completed, no request
\* changes it to another status.
C13_StatusAbsorbing == [][StatusAbsorbing]_vars

\* C20: every stored reservation's status is one of active, cancelled,
\* completed, the values the schema and the pages know.
C20_StatusInSchema ==
    \A id \in DOMAIN reservations :
        reservations[id].status \in {"active", "cancelled", "completed"}

---------------------------------------------------------------------------
(* The penalty calculators of the pages *)

MinutesPerHour == 60

\* the dates, the clocks (hours) and the multipliers a page previews a
\* booking with: up to 32 days ahead, at 06:00 of day 0 and of day 1
PreviewDates == 0..32

PreviewInstants == {6, 30}

PreviewMultipliers == {1, 2}

\* the date (day 1) and the clocks (minutes) a page previews a cancellation
\* with: every half hour from 24 hours before the date to 6 hours after
\* it, and one minute either side of the 12 hours
CancelPreviewDates == {1}

CancelPreviewClocks == {k * 30 : k \in 0..60} \cup {719, 721}

\* Math.trunc(a / b) for b > 0
Trunc(a, b) == IF a >= 0 THEN a \div b ELSE -((-a) \div b)

\* date-fns startOfWeek(d, { weekStartsOn: 0 }): Sunday 00:00
StartOfWeek(t) == t - (t % (DaysPerWeek * HoursPerDay))

\* date-fns differenceInWeeks: whole weeks, truncated
DifferenceInWeeks(later, earlier) ==
    Trunc(later - earlier, DaysPerWeek * HoursPerDay)

\* calculateReservationPenalty of lib/penalty-calculator.ts, by weeks
CalculateReservationPenaltyWeek(date, t, weeklyMultiplier) ==
    IF StartOfWeek(DateTime(date)) <= StartOfWeek(t) THEN 0
    ELSE Abs(DifferenceInWeeks(StartOfWeek(DateTime(date)), StartOfWeek(t)))
             * weeklyMultiplier

\* what POST /api/reservations charges for (date, now, multiplier)
ServerCharge(date, t, weeklyMultiplier) ==
    IF InFutureWeek(date, t) THEN WeeksAhead(date, t) * weeklyMultiplier
    ELSE 0

\* resDate.getTime() - now.getTime(), in minutes
MinutesUntil(date, tm) == DateTime(date) * MinutesPerHour - tm

\* calculateCancellationPenalty: hoursUntil >= 12 is free
CalculateCancellationPenalty(until, lateCancelMultiplier) ==
    IF until >= LateHours * MinutesPerHour THEN 0 ELSE lateCancelMultiplier

\* date-fns differenceInHours rounding up instead of truncating
DifferenceInHoursUp(until) == Ceil(until, MinutesPerHour)

\* date-fns differenceInHours: whole hours, truncated
DifferenceInHours(until) == Trunc(until, MinutesPerHour)

\* isLateCancellation of the pages (date-utils)
ClientIsLateCancellation(until) == DifferenceInHours(until) < LateHours

\* isLateCancellation of server/routes.ts, on minutes
ServerIsLateCancellation(until) == until < LateHours * MinutesPerHour

\* a page computes the penalty of a booking
PreviewReservation(date, t, weeklyMultiplier) ==
    /\ preview' = [kind |-> "reservation", date |-> date, now |-> t,
                   multiplier |-> weeklyMultiplier,
                   points |-> CalculateReservationPenalty(date, t, weeklyMultiplier),
                   weekPoints |->
                       CalculateReservationPenaltyWeek(date, t, weeklyMultiplier)]
    /\ UNCHANGED <<backend, stores, now, resp, pending>>

\* a page computes the penalty of a cancellation
PreviewCancellation(date, tm, lateCancelMultiplier) ==
    /\ preview' = [kind |-> "cancellation",
                   until |-> MinutesUntil(date, tm),
                   multiplier |-> lateCancelMultiplier,
                   points |-> CalculateCancellationPenalty(
                                  MinutesUntil(date, tm), lateCancelMultiplier),
                   late |-> ClientIsLateCancellation(MinutesUntil(date, tm))]
    /\ UNCHANGED <<backend, stores, now, resp, pending>>

PreviewNext ==
    \/ \E d \in PreviewDates, t \in PreviewInstants, m \in PreviewMultipliers :
          PreviewReservation(d, t, m)
    \/ \E d \in CancelPreviewDates, tm \in CancelPreviewClocks,
          m \in PreviewMultipliers : PreviewCancellation(d, tm, m)

PreviewSpec == Init /\ [][PreviewNext]_vars

---------------------------------------------------------------------------
(* Properties of the calculators *)

\* ceil((reservationDate - now) / 1 day) of the previewed booking
PreviewDaysAhead == Ceil(preview.date * 24 - preview.now, 24)

C15_PenaltyIsKTimesMultiplier ==
    preview.kind = "reservation" =>
        \A k \in 0..2, r \in 1..10 :
            PreviewDaysAhead = 10 + 10 * k + r
            => preview.points = k * preview.multiplier

\* C15, amended: for daysAhead = 10 + 10k + r with 1 <= r <= 10 the
\* booking penalty is (k + 1) * multiplier.
C15_PenaltyIsKPlusOneTimesMultiplier ==
    preview.kind = "reservation" =>
        \A k \in 0..2, r \in 1..10 :
            PreviewDaysAhead = 10 + 10 * k + r
            => preview.points = (k + 1) * preview.multiplier

\* 21 days ahead (k = 1, r = 1): two periods
C15_Witness ==
    /\ preview.kind = "reservation"
    /\ PreviewDaysAhead = 21
    /\ preview.points = 2 * preview.multiplier

\* C16: the cancellation evaluator gives 0 points from 12 hours before the
\* date on and the flat multiplier below, however late, also after the
\* date; the predicates of the server and of the pages say "late" exactly
\* when it charges.
C16_CancellationEvaluator ==
    preview.kind = "cancellation" =>
        /\ preview.until >= 720 =>
              /\ preview.points = 0
              /\ ~preview.late
              /\ ~ServerIsLateCancellation(preview.until)
        /\ preview.until < 720 =>
              /\ preview.points = preview.multiplier
              /\ preview.late
              /\ ServerIsLateCancellation(preview.until)

\* one minute less than 12 hours before the date: late, the flat charge
C16_Witness ==
    /\ preview.kind = "cancellation"
    /\ preview.until = 719
    /\ preview.late
    /\ preview.points = preview.multiplier

\* the week calculator of the pages against the server's charge
WeekPreviewEqualsCharge ==
    preview.kind = "reservation" =>
        preview.weekPoints =
            ServerCharge(preview.date, preview.now, preview.multiplier)

\* C17: for every (date, now, multiplier) the points the pages' calculators
\* show for a booking are the points POST /api/reservations charges.
C17_PreviewEqualsCharge ==
    /\ WeekPreviewEqualsCharge
    /\ preview.kind = "reservation" =>
           preview.points =
               ServerCharge(preview.date, preview.now, preview.multiplier)

---------------------------------------------------------------------------
(* POST /api/reservations, one storage call at a time.  Each `await       *)
(* storage...` of the handler is a point where another request can run;   *)
(* the two reads before createReservation are taken together.             *)

\* booking requests that can be in flight together
MaxRequests == 2

RequestIds == 1..MaxRequests

\* a request that passed the checks and has not written yet
Admitted(userId, slot, date) ==
    [userId |-> userId, slot |-> slot, date |-> date, pc |-> "checked",
     resId |-> 0, points |-> 0, read |-> 0]

\* the handler answers and ends
Finish(q, code, error) ==
    /\ resp' = Response("createReservation", code, error, pending[q].resId)
    /\ pending' = Remove(pending, q)

\* MemStorage's methods wait for no I/O (fs.writeFileSync), so on the JSON
\* storage a handler runs through all its storage calls before another
\* request's handler starts; SQLiteCloudStorage's calls are round trips
NoHandlerRunning == backend = "json" => pending = <<>>

\* storage.getUser and storage.getReservationBySlotAndDate: the request is
\* refused, or goes on to createReservation
BeginCreate(userId, slot, date) ==
    /\ DOMAIN pending # RequestIds
    /\ NoHandlerRunning
    /\ LET rejected == PreCheck(userId, slot, date)
       IN  IF rejected.code # 0 THEN
              /\ resp' = Response("createReservation", rejected.code,
                                  rejected.error, 0)
              /\ UNCHANGED pending
           ELSE
              /\ pending' = pending @@
                     (MinOf(RequestIds \ DOMAIN pending) :>
                         Admitted(userId, slot, date))
              /\ resp' = NoResponse
    /\ UNCHANGED <<backend, stores, now, preview>>

\* what storage.createReservation writes
WriteReservation(q) ==
    /\ currentReservationId <= MaxReservations
    /\ reservations' = reservations @@
           (currentReservationId :>
               NewReservation(pending[q].userId, pending[q].slot,
                              pending[q].date, ""))
    /\ currentReservationId' = currentReservationId + 1
    /\ UNCHANGED <<users, penalties, settings, currentUserId,
                   currentPenaltyId>>

\* storage.createReservation
InsertReservation(q) ==
    /\ q \in DOMAIN pending
    /\ pending[q].pc = "checked"
    /\ WriteReservation(q)
    /\ pending' = [pending EXCEPT ![q].pc = "inserted",
                                  ![q].resId = currentReservationId]
    /\ resp' = NoResponse
    /\ UNCHANGED <<backend, now, preview>>

\* the points of the booking, from the weeks at the time of the call
PenaltyPoints(q) ==
    WeeksAhead(pending[q].date, now) * WeeklyMultiplier(settings)

\* what storage.createPenalty writes
WritePenalty(q) ==
    /\ penalties' = penalties @@
           (currentPenaltyId :>
               NewBookingPenalty(pending[q].userId, pending[q].resId,
                                 PenaltyPoints(q)))
    /\ currentPenaltyId' = currentPenaltyId + 1
    /\ UNCHANGED <<users, reservations, settings, currentUserId,
                   currentReservationId>>

\* the week test, then storage.getSetting and storage.createPenalty; a
\* booking in the current week is answered 201 here
InsertPenalty(q) ==
    /\ q \in DOMAIN pending
    /\ pending[q].pc = "inserted"
    /\ IF InFutureWeek(pending[q].date, now) THEN
          /\ WritePenalty(q)
          /\ pending' = [pending EXCEPT ![q].pc = "charged",
                                        ![q].points = PenaltyPoints(q)]
          /\ resp' = NoResponse
       ELSE
          /\ Finish(q, 201, "")
          /\ UNCHANGED stores
    /\ UNCHANGED <<backend, now, preview>>

\* storage.getUser before the points are added; without the user the
\* handler skips the update and answers 201
ReadUser(q) ==
    /\ q \in DOMAIN pending
    /\ pending[q].pc = "charged"
    /\ IF pending[q].userId \in DOMAIN users THEN
          /\ pending' = [pending EXCEPT
                 ![q].pc = "read",
                 ![q].read = users[pending[q].userId].penaltyPoints]
          /\ resp' = NoResponse
       ELSE Finish(q, 201, "")
    /\ UNCHANGED <<backend, stores, now, preview>>

\* what storage.updateUser(user.id, { penaltyPoints: user.penaltyPoints +
\* penaltyPoints }) writes
WriteUserPoints(q) ==
    /\ users' = UpdateUser(users, settings, pending[q].userId,
                    [penaltyPoints |-> pending[q].read + pending[q].points])
    /\ UNCHANGED <<reservations, penalties, settings, currentUserId,
                   currentReservationId, currentPenaltyId>>

\* storage.updateUser, then 201
WriteUser(q) ==
    /\ q \in DOMAIN pending
    /\ pending[q].pc = "read"
    /\ WriteUserPoints(q)
    /\ Finish(q, 201, "")
    /\ UNCHANGED <<backend, now, preview>>

\* the next storage call of the request throws: the catch answers 500 and
\* nothing that was written is taken back.  A SQLiteCloudStorage call that
\* throws has written nothing.  A MemStorage call throws in saveAll, after
\* it changed the maps in memory, and MemStorage's reads cannot throw.  A
\* booking in the current week has no storage call left after
\* createReservation.
StorageFailure(q) ==
    /\ q \in DOMAIN pending
    /\ pending[q].pc = "inserted" => InFutureWeek(pending[q].date, now)
    /\ IF backend = "json" THEN
          CASE pending[q].pc = "checked" -> WriteReservation(q)
            [] pending[q].pc = "inserted" -> WritePenalty(q)
            [] pending[q].pc = "read" -> WriteUserPoints(q)
            [] OTHER -> FALSE
       ELSE UNCHANGED stores
    /\ Finish(q, 500, "Internal server error")
    /\ UNCHANGED <<backend, now, preview>>

ConcurrentNext ==
    \/ \E u \in RequestUserIds, s \in SlotInputs, d \in DateInputs :
          BeginCreate(u, s, d)
    \/ \E q \in RequestIds : InsertReservation(q)
    \/ \E q \in RequestIds : InsertPenalty(q)
    \/ \E q \in RequestIds : ReadUser(q)
    \/ \E q \in RequestIds : WriteUser(q)
    \/ \E q \in RequestIds : StorageFailure(q)
    \/ \E id \in RequestUserIds : NoHandlerRunning /\ DeleteUser(id)
    \/ \E t \in Instants : Tick(t)

ConcurrentSpec == Init /\ [][ConcurrentNext]_vars

---------------------------------------------------------------------------
(* Properties of concurrent bookings *)

\* a request goes on to createReservation only when its check found no
\* active reservation for its (slot, date)
AdmittedOnFreeSlot ==
    \A q \in DOMAIN pending' \ DOMAIN pending :
        ActiveBySlotAndDate(reservations, pending'[q].slot, pending'[q].date) = {}

\* a second active reservation for a (slot, date) comes from the
\* createReservation of a request that was admitted before
SecondActiveByAdmitted ==
    (AtMostOneActive /\ ~AtMostOneActive') =>
        \E q \in DOMAIN pending :
            /\ pending[q].pc = "checked"
            /\ InsertReservation(q)
            /\ Cardinality(ActiveBySlotAndDate(reservations', pending[q].slot,
                                               pending[q].date)) = 2

\* C18: two booking requests for the same (slot, date) that interleave
\* between the slot check and createReservation both pass the check, each
\* on a free slot, and leave two active reservations for that (slot, date).
C18_CheckThenActRace == [][AdmittedOnFreeSlot /\ SecondActiveByAdmitted]_vars

\* both requests are answered and (slot, date) has two active reservations
C18_Witness ==
    /\ pending = <<>>
    /\ \E s \in SlotInputs, d \in DateInputs :
          Cardinality(ActiveBySlotAndDate(reservations, s, d)) = 2

\* C19: with no booking in flight, every Penalty's points are in its
\* user's penaltyPoints: each user's points are the sum of the user's
\* Penalty records, also after a failed storage call or a user that went
\* missing between createPenalty and updateUser.
C19_PenaltyAddedAtomically ==
    pending = <<>> =>
        \A u \in DOMAIN users : users[u].penaltyPoints = LedgerPoints(u)

---------------------------------------------------------------------------
(* Bookings of a slot the schema does not list *)

\* PARKING_SLOTS
ParkingSlots == {"24", "25", "37", "38", "39", "40", "41", "42"}

\* insertReservationSchema takes slot as any text
UnlistedSlotInputs == {"99"}

SlotNext ==
    \/ LedgerNext
    \/ \E u \in RequestUserIds, s \in UnlistedSlotInputs, d \in DateInputs,
          st \in StatusInputs : CreateReservation(u, s, d, st)

SlotSpec == Init /\ [][SlotNext]_vars

\* C21: every stored reservation's slot is one of the eight slots 24, 25,
\* 37, 38, 39, 40, 41, 42, so a booking request that names another slot
\* stores nothing.
C21_SlotInFixedSet ==
    \A id \in DOMAIN reservations : reservations[id].slot \in ParkingSlots

---------------------------------------------------------------------------
(* Accounts near the default threshold *)

\* POST /api/users bodies with points one below and at the default
\* threshold
ThresholdUserInputs == {[penaltyPoints |-> 89], [penaltyPoints |-> 90]}

ThresholdNext ==
    \/ \E u \in RequestUserIds, s \in SlotInputs, d \in DateInputs :
          CreateReservation(u, s, d, "")
    \/ \E body \in ThresholdUserInputs : CreateUser(body)
    \/ \E id \in RequestUserIds : ChangePassword(id)
    \/ \E id \in RequestUserIds : SuspendUser(id, FALSE)
    \/ \E wm \in MultiplierInputs, lc \in LatePenaltyInputs,
          th \in ThresholdInputs : UpdateSettings(wm, lc, th)
    \/ \E t \in Instants : Tick(t)

ThresholdSpec == Init /\ [][ThresholdNext]_vars

\* the threshold the settings hold now, 90 when they hold none
ThresholdInForce ==
    IF "AUTO_SUSPEND_PENALTY_THRESHOLD" \in DOMAIN settings
    THEN ParseNumber(settings["AUTO_SUSPEND_PENALTY_THRESHOLD"])
    ELSE DefaultThreshold

\* a step of the JSON storage that changes a user's points leaves the user
\* suspended iff the user was suspended or the new points reach the
\* threshold in force
ThresholdReadAtUpdate ==
    backend = "json" =>
        \A u \in DOMAIN users \cap DOMAIN users' :
            users'[u].penaltyPoints # users[u].penaltyPoints =>
                users'[u].suspended =
                    (users[u].suspended
                        \/ users'[u].penaltyPoints >= ThresholdInForce)

\* C22: where the storage evaluates the auto-suspend threshold
\* (MemStorage.updateUser) it reads it from the settings at that moment:
\* after PUT /api/settings changed AUTO_SUSPEND_PENALTY_THRESHOLD the next
\* update of a user's points is compared with the new value, and while the
\* setting was never set the points are compared with 90.
C22_ThresholdReadAtUpdate == [][ThresholdReadAtUpdate]_vars

\* one account was suspended on reaching 2 points under a threshold set to
\* 2, another holds 90 points and is suspended
C22_Witness ==
    /\ backend = "json"
    /\ resp.op = "createReservation" /\ resp.code = 201
    /\ "AUTO_SUSPEND_PENALTY_THRESHOLD" \in DOMAIN settings
    /\ users[2].penaltyPoints = 2 /\ users[2].suspended
    /\ 3 \in DOMAIN users
    /\ users[3].penaltyPoints = 90 /\ users[3].suspended
    /\ \E r \in DOMAIN reservations : reservations[r].userId = 3

---------------------------------------------------------------------------
(* Properties of the user routes *)

\* the step of a password change or of a user creation
PasswordOrCreateKeepsUsers ==
    ( /\ resp'.op = "admin"
      /\ \/ \E id \in RequestUserIds : ChangePassword(id)
         \/ \E body \in UserInputs : CreateUser(body) )
    => \A u \in DOMAIN users :
           /\ users'[u].penaltyPoints = users[u].penaltyPoints
           /\ users'[u].suspended = users[u].suspended

\* C23: a password change (by the admin or by the user) and the creation
\* of a user leave penaltyPoints and suspended of every existing user as
\* they were.
C23_PasswordOrCreateKeepsUsers == [][PasswordOrCreateKeepsUsers]_vars

---------------------------------------------------------------------------
(* The two shapes of a cancellation *)

\* the users storage.updateReservation(id, { status: "canceled" }) leaves
UsersAfterCancel(id) ==
    LET r == reservations[id]
        found == PenaltiesOfReservation(penalties, id)
    IN  IF /\ backend = "sqlitecloud"
           /\ WeeksDifference(r.date, now) >= 1
           /\ r.userId \in DOMAIN users
           /\ found # {}
        THEN UpdateUser(users, settings, r.userId,
                 [penaltyPoints |->
                     Deduct(users[r.userId].penaltyPoints,
                            penalties[MinOf(found)].points)])
        ELSE users

\* the penalties storage.updateReservation(id, { status: "canceled" }) leaves
PenaltiesAfterCancel(id) ==
    LET r == reservations[id]
        found == PenaltiesOfReservation(penalties, id)
    IN  IF /\ backend = "sqlitecloud"
           /\ WeeksDifference(r.date, now) >= 1
           /\ r.userId \in DOMAIN users
           /\ found # {}
        THEN Remove(penalties, MinOf(found))
        ELSE penalties

\* reservation create and cancel requests, and storage.deleteReservation
ShapesNext ==
    \/ LedgerNext
    \/ \E id \in ReservationIds : DeleteReservation(id)

ShapesSpec == Init /\ [][ShapesNext]_vars

\* a cancel request leaves the users and penalties the two operators name
CancelLeavesAfterCancel ==
    resp'.op = "cancel" =>
        \A id \in DOMAIN reservations :
            CancelReservation(id) =>
                users' = UsersAfterCancel(id) /\ penalties' = PenaltiesAfterCancel(id)

CancelShapeAsModelled == [][CancelLeavesAfterCancel]_vars

\* the step of a deleteReservation
DeleteLeavesAfterCancel ==
    resp'.op = "deleteReservation" =>
        \A id \in DOMAIN reservations :
            DeleteReservation(id) =>
                users' = UsersAfterCancel(id) /\ penalties' = PenaltiesAfterCancel(id)

\* C24: deleteReservation and updateReservation(status = canceled) have
\* the same effect on the ledger: removing a reservation leaves the users'
\* penaltyPoints and the Penalty records that cancelling it from the same
\* state leaves.
C24_ShapesEquivalent == [][DeleteLeavesAfterCancel]_vars

---------------------------------------------------------------------------
(* Properties of the cancellation in the SQL storage *)

\* the hours from now to the start of the reservation's day
HoursUntil(date) == DateTime(date) - now

\* the step of a cancel, in the SQL storage, less than a week before the
\* reservation's date
SqlCancelWithinWeekKeeps ==
    (backend = "sqlitecloud" /\ resp'.op = "cancel") =>
        \A id \in DOMAIN reservations :
            ( /\ HoursUntil(reservations[id].date) < DaysPerWeek * HoursPerDay
              /\ CancelReservation(id) )
            => users' = users /\ penalties' = penalties

\* C25: in the SQL storage a cancellation reverses the booking penalty
\* only when the reservation's date is 7 full days or more after the
\* cancellation: a cancel less than 7 days before the date keeps the
\* Penalty record and the user's points.
C25_SqlCancelWithinWeekKeeps == [][SqlCancelWithinWeekKeeps]_vars

---------------------------------------------------------------------------
(* Properties of suspension *)

\* the step of an unsuspend request for an existing user
UnsuspendClears ==
    resp'.op = "admin" =>
        \A id \in DOMAIN users :
            SuspendUser(id, FALSE) => ~users'[id].suspended

\* C26: PUT /api/users/:id/suspend with suspended = false for an existing
\* user leaves that user not suspended, whatever the user's points and the
\* threshold.
C26_UnsuspendClears == [][UnsuspendClears]_vars

---------------------------------------------------------------------------
(* Properties of the points under concurrent bookings *)

\* the step of the updateUser of a booking in flight, for a user that
\* still exists
WriteAddsToStoredPoints ==
    \A q \in DOMAIN pending :
        ( /\ pending[q].pc = "read"
          /\ pending[q].userId \in DOMAIN users
          /\ WriteUser(q) )
        => users'[pending[q].userId].penaltyPoints =
               users[pending[q].userId].penaltyPoints + pending[q].points

\* C27: when two bookings of one user that carry a penalty interleave at
\* their storage calls, each updateUser adds its penalty to the points the
\* user has at that moment, so the user ends with the initial points plus
\* both penalties.
C27_NoLostIncrement == [][WriteAddsToStoredPoints]_vars

---------------------------------------------------------------------------
(* GET /api/parking-slots?date= *)

\* the slots booking requests name in the availability model
AvailabilitySlotInputs == {"24", "25"}

\* storage.getReservationsByDate, whatever the status
GetReservationsByDateAnyStatus(rs, date) ==
    {i \in DOMAIN rs : rs[i].date = date}

\* storage.getReservationsByDate: the ids of the active reservations of
\* the date
GetReservationsByDate(rs, date) ==
    {i \in DOMAIN rs : rs[i].date = date /\ rs[i].status = "active"}

\* slotsWithAvailability of the handler: slot -> available
SlotsWithAvailability(rs, date) ==
    LET reservedSlots == {rs[i].slot : i \in GetReservationsByDate(rs, date)}
    IN  [slot \in ParkingSlots |-> slot \notin reservedSlots]

\* the request with a date in the query: it answers and writes nothing
GetParkingSlots(date) ==
    /\ resp' = [op |-> "parkingSlots", code |-> 200, error |-> "", resId |-> 0,
                date |-> date,
                slots |-> SlotsWithAvailability(reservations, date)]
    /\ UNCHANGED <<backend, stores, now, preview, pending>>

AvailabilityNext ==
    \/ \E u \in RequestUserIds, s \in AvailabilitySlotInputs, d \in DateInputs :
          CreateReservation(u, s, d, "")
    \/ \E id \in ReservationIds : CancelReservation(id)
    \/ \E d \in DateInputs : GetParkingSlots(d)
    \/ \E id \in RequestUserIds : SuspendUser(id, TRUE)
    \/ \E t \in Instants : Tick(t)

AvailabilitySpec == Init /\ [][AvailabilityNext]_vars

---------------------------------------------------------------------------
(* Properties of the availability *)

\* an active reservation exists for (slot, date)
HasActive(rs, slot, date) ==
    \E i \in DOMAIN rs :
        rs[i].slot = slot /\ rs[i].date = date /\ rs[i].status = "active"

\* the answer of GET /api/parking-slots
ReportedIffActive ==
    resp'.op = "parkingSlots" =>
        \A slot \in ParkingSlots :
            resp'.slots[slot] = ~HasActive(reservations, slot, resp'.date)

\* the step of a cancel that is answered 200
CancelFreesSlot ==
    (resp'.op = "cancel" /\ resp'.code = 200) =>
        LET r == reservations[resp'.resId]
        IN  r.status = "active" =>
                SlotsWithAvailability(reservations', r.date)[r.slot]

\* the step of a booking, by a user who may book, of a (slot, date) whose
\* reservations are all cancelled
RebookSucceeds ==
    resp'.op = "createReservation" =>
        \A s \in AvailabilitySlotInputs, d \in DateInputs :
            ( /\ ~HasActive(reservations, s, d)
              /\ \E i \in DOMAIN reservations :
                    reservations[i].slot = s /\ reservations[i].date = d )
            => \A u \in DOMAIN users :
                   (~users[u].suspended /\ CreateReservation(u, s, d, ""))
                   => /\ resp'.code = 201
                      /\ HasActive(reservations', s, d)

\* C28: GET /api/parking-slots for a date reports a slot unavailable iff
\* an active reservation exists for that (slot, date); once a cancel has
\* gone through the slot is reported available, and a new booking of the
\* same (slot, date) by a user who may book succeeds.
C28_AvailabilityTracksActive ==
    [][ReportedIffActive /\ CancelFreesSlot /\ RebookSucceeds]_vars

\* a (slot, date) was booked again after its reservation was cancelled,
\* and the other slot of the date is free
C28_Witness ==
    /\ resp.op = "createReservation" /\ resp.code = 201
    /\ \E i \in DOMAIN reservations :
          /\ reservations[i].status = "canceled"
          /\ reservations[i].slot = reservations[resp.resId].slot
          /\ reservations[i].date = reservations[resp.resId].date
          /\ ~SlotsWithAvailability(reservations, reservations[i].date)[reservations[i].slot]
          /\ SlotsWithAvailability(reservations, reservations[i].date)["25"]

---------------------------------------------------------------------------
(* Properties of the deletion of a user *)

\* the step of a DELETE /api/users/:id that is answered 200
DeleteUserRemovesReservations ==
    resp'.op = "admin" =>
        \A id \in DOMAIN users :
            DeleteUser(id) =>
                \A r \in DOMAIN reservations' : reservations'[r].userId # id

\* C29: after a successful DELETE /api/users/:id no reservation of that
\* user remains, so no active reservation of a deleted user keeps a
\* (slot, date) taken.
C29_DeleteUserRemovesReservations == [][DeleteUserRemovesReservations]_vars


\* C30: between requests, on both storages, every user whose penaltyPoints
\* reach the auto-suspend threshold in force is suspended (and so cannot
\* book), also after a user was created with initial points and after the
\* admin changed the threshold.
C30_AtThresholdSuspended ==
    \A u \in DOMAIN users :
        users[u].penaltyPoints >= ThresholdInForce => users[u].suspended

=============================================================================
